---- MODULE Spec2Model ----
(***************************************************************************)
(* Model of gravitysim (src/app.py): the pairwise force solve             *)
(* (calculate_forces), the Euler step (Body.update_state), the frame       *)
(* callback (MainWidget.on_update) and the trail decimation                *)
(* (Trail.set_pos).                                                        *)
(*                                                                         *)
(* Arithmetic.  The program computes in IEEE doubles; the model computes   *)
(* in fixed point: every quantity is an integer number of model units,     *)
(* addition and multiplication are exact and every operation that cannot   *)
(* be exact in integers rounds: quotients toward zero (sign-symmetric,     *)
(* like IEEE rounding), the square root down, and cos/sin of the angle     *)
(* as the quotient of the component by the rounded distance.               *)
(* Units: length 10^6 km, time 50 s, mass 1/G in those units, so that      *)
(* WORLD_WIDTH = 5e8 km is 500, DELTA_T = 100 s is 2 and GRAVITY_CONST     *)
(* is 1.  Counts (STEPS_PER_RENDER, the trail cap of 100) are as written.  *)
(*                                                                         *)
(* Not modelled: the Kivy canvas objects (Ellipse, Line, Label text),      *)
(* which the program only writes; pos_to_screen and scalar_to_screen,      *)
(* which feed only those; Body.radius, which only they read.               *)
(***************************************************************************)
EXTENDS Integers, Sequences, FiniteSets, TLC

\* ------------------------------------------------------------ constants
\* 5e8 km, in units of 10^6 km
WORLD_WIDTH == 500
\* 6.6743e-20 km^3 / (kg s^2), in the model's units of length, time and mass
GRAVITY_CONST == 1
\* 100 s, in units of 50 s
DELTA_T == 2
STEPS_PER_RENDER == 100
\* the literal of "if len(self.points) > 100"
TRAIL_MAX_POINTS == 100

\* --------------------------------------------------------------- bounds
\* on_update calls explored
MaxUpdates == 2
\* Trail.set_pos calls explored in SpecTrail: the first FreeHead and the last
\* FreeTail of MaxCalls calls take any position of TrailPositions, the calls
\* between them take the positions of a fixed tour (FarTour)
MaxCalls == 115
FreeHead == 5
FreeTail == 5

\* ------------------------------------------------------------ variables
VARIABLES
    objects,         \* MainWidget.objects: sequence of Body records
    time,            \* MainWidget.time
    info_time,       \* the value of self.time the label text was last made from
    pc,              \* position in on_update
    s,               \* steps of the running batch that are complete
    j,               \* index of the "for obj in self.objects" loop in progress
    frames,          \* on_update calls that have returned
    objects0,        \* history: the bodies as constructed
    step_pos,        \* history: every body's pos when the running step began
    batch_end,       \* history: per body, the set of pos values at the ends of batches
    n_update_state,  \* history: per body, update_state calls received
    n_set_pos,       \* history: per body, trail.set_pos calls received
    points,          \* a Trail's points (the Trail driven directly, SpecTrail)
    arg,             \* history: the pos of the last set_pos call on that Trail
    prev,            \* history: its points before that call
    n_calls          \* history: set_pos calls made on it

vars == <<objects, time, info_time, pc, s, j, frames, objects0, step_pos,
          batch_end, n_update_state, n_set_pos, points, arg, prev, n_calls>>

sim_vars == <<objects, time, info_time, pc, s, j, frames, objects0, step_pos,
              batch_end, n_update_state, n_set_pos>>

trail_vars == <<points, arg, prev, n_calls>>

\* ------------------------------------------------------ vector arithmetic
\* numpy's elementwise +, -, unary -, scalar * on 2-vectors
VAdd(a, b) == <<a[1] + b[1], a[2] + b[2]>>

VSub(a, b) == <<a[1] - b[1], a[2] - b[2]>>

VNeg(a) == <<0 - a[1], 0 - a[2]>>

VScale(a, k) == <<a[1] * k, a[2] * k>>

Zero2 == <<0, 0>>

Abs(x) == IF x < 0 THEN 0 - x ELSE x

\* a / b for b > 0, rounded toward zero
Quot(a, b) == IF a >= 0 THEN a \div b ELSE 0 - ((0 - a) \div b)

VQuot(a, k) == <<Quot(a[1], k), Quot(a[2], k)>>

RECURSIVE Bisect(_, _, _)
Bisect(n, lo, hi) ==
    IF lo >= hi THEN lo
    ELSE LET mid == (lo + hi + 1) \div 2
         IN IF mid * mid <= n THEN Bisect(n, mid, hi) ELSE Bisect(n, lo, mid - 1)

\* the square root, rounded down
ISqrt(n) == Bisect(n, 0, IF n < 46340 THEN n ELSE 46340)

\* np.linalg.norm of a 2-vector
norm(v) == ISqrt(v[1] * v[1] + v[2] * v[2])

\* ------------------------------------------------------------------ Trail
\* WORLD_WIDTH * 0.01
MinSpacing == WORLD_WIDTH \div 100

\* set_pos with the elif branch lost: every position is appended
set_pos_always_append(pts, pos) ==
    LET added == Append(pts, pos)
    IN IF Len(added) > TRAIL_MAX_POINTS THEN Tail(added) ELSE added

\* set_pos that measures from the last point instead of the second-to-last
set_pos_from_last(pts, pos) ==
    LET n == Len(pts)
        added == IF n < 2 THEN Append(pts, pos)
                 ELSE IF norm(VSub(pts[n], pos)) < MinSpacing
                      THEN [pts EXCEPT ![n] = pos]
                      ELSE Append(pts, pos)
    IN IF Len(added) > TRAIL_MAX_POINTS THEN Tail(added) ELSE added

\* set_pos that never removes old points
set_pos_no_evict(pts, pos) ==
    LET n == Len(pts)
    IN IF n < 2 THEN Append(pts, pos)
       ELSE IF norm(VSub(pts[n - 1], pos)) < MinSpacing
            THEN [pts EXCEPT ![n] = pos]
            ELSE Append(pts, pos)

\* Trail.set_pos: the points after set_pos(pos) on a trail holding pts
set_pos(pts, pos) ==
    LET n == Len(pts)
        added == IF n < 2 THEN Append(pts, pos)
                 ELSE IF norm(VSub(pts[n - 1], pos)) < MinSpacing
                      THEN [pts EXCEPT ![n] = pos]
                      ELSE Append(pts, pos)
    IN IF Len(added) > TRAIL_MAX_POINTS THEN Tail(added) ELSE added

\* ------------------------------------------------------- calculate_forces
\* a Body as constructed: force zero, an empty Trail
Body(pos, vel, mass) ==
    [pos |-> pos, vel |-> vel, mass |-> mass, force |-> Zero2, trail |-> <<>>]

RECURSIVE pair_loop(_, _, _, _)
pair_loop(i1, i2, last1, n) ==
    IF i1 > last1 THEN <<>>
    ELSE IF i2 > n THEN pair_loop(i1 + 1, i1 + 2, last1, n)
         ELSE <<<<i1, i2>>>> \o pair_loop(i1, i2 + 1, last1, n)

RECURSIVE self_pair_loop(_, _, _)
self_pair_loop(i1, i2, n) ==
    IF i1 > n THEN <<>>
    ELSE IF i2 > n THEN self_pair_loop(i1 + 1, i1 + 1, n)
         ELSE <<<<i1, i2>>>> \o self_pair_loop(i1, i2 + 1, n)

\* the pair loops with range(num_objects) and range(i1, num_objects): every
\* object is also paired with itself
pairs_with_self(num_objects) == self_pair_loop(1, 1, num_objects)

\* the index pairs the two for loops visit, in order:
\* i1 in range(num_objects-1), i2 in range(i1+1, num_objects)
pairs(num_objects) == pair_loop(1, 2, num_objects - 1, num_objects)

\* the force vector f that one pair's loop body computes.  cos(theta) and
\* sin(theta) of theta = atan2(delta[1], delta[0]) are delta[0]/dist and
\* delta[1]/dist; needs dist > 0
pair_force(obj1, obj2) ==
    LET delta == VSub(obj2.pos, obj1.pos)
        dist == norm(delta)
        f_mag == Quot(GRAVITY_CONST * obj1.mass * obj2.mass, dist * dist)
        fx == Quot(f_mag * delta[1], dist)
        fy == Quot(f_mag * delta[2], dist)
    IN <<fx, fy>>

\* the accumulation with the sign of the second update lost
add_pair_same_sign(forces, i1, i2, f) ==
    [[forces EXCEPT ![i1] = VAdd(@, f)] EXCEPT ![i2] = VAdd(@, f)]

\* forces[obj1] += f ; forces[obj2] += -f
add_pair(forces, i1, i2, f) ==
    [[forces EXCEPT ![i1] = VAdd(@, f)] EXCEPT ![i2] = VAdd(@, VNeg(f))]

RECURSIVE accumulate(_, _, _)
accumulate(forces, objs, ps) ==
    IF ps = <<>> THEN forces
    ELSE LET i1 == Head(ps)[1]
             i2 == Head(ps)[2]
         IN accumulate(add_pair(forces, i1, i2, pair_force(objs[i1], objs[i2])),
                       objs, Tail(ps))

\* some visited pair has dist = 0: the division by dist**2 is by zero and the
\* forces the program then assigns are inf and nan
degenerate(objs) ==
    \E k \in 1..Len(pairs(Len(objs))) :
        LET p == pairs(Len(objs))[k]
        IN norm(VSub(objs[p[2]].pos, objs[p[1]].pos)) = 0

\* Body.set_force
set_force(b, f) == [b EXCEPT !.force = f]

\* calculate_forces: the objects with their accumulated forces set
calculate_forces(objs) ==
    LET forces == accumulate([i \in 1..Len(objs) |-> Zero2], objs, pairs(Len(objs)))
    IN [i \in 1..Len(objs) |-> set_force(objs[i], forces[i])]

\* ------------------------------------------------------------------- Body
\* update_state with the division by the mass lost: a = self.force
update_state_no_mass(b, dt) ==
    [b EXCEPT !.pos = VAdd(b.pos, VScale(b.vel, dt)),
              !.vel = VAdd(b.vel, VScale(b.force, dt))]

\* update_state with the position taken from the already updated velocity
update_state_new_vel(b, dt) ==
    LET a == VQuot(b.force, b.mass)
        vel == VAdd(b.vel, VScale(a, dt))
    IN [b EXCEPT !.vel = vel, !.pos = VAdd(b.pos, VScale(vel, dt))]

\* Body.update_state
update_state(b, dt) ==
    LET a == VQuot(b.force, b.mass)
    IN [b EXCEPT !.pos = VAdd(b.pos, VScale(b.vel, dt)),
                 !.vel = VAdd(b.vel, VScale(a, dt))]

\* Body.update_graphics: self.trail.set_pos(self.pos)
update_graphics(b) == [b EXCEPT !.trail = set_pos(b.trail, b.pos)]

\* ----------------------------------------------------- MainWidget: Init
\* The bodies a run starts from: 0 to 3 bodies at pairwise distinct places
\* (the places of StartPlaces, in that order), each with a mass of Masses and
\* a velocity of Velocities.  MainWidget.__init__ appends four fixed bodies;
\* the list is drawn from these sets instead, as the operations take any list.
StartPlaces == << <<0, 0>>, <<2, 1>>, <<4, 0>>, <<0, -3>> >>

Masses == {3, 10}

Velocities == {Zero2, <<1, -1>>}

BodyCounts == 0..3

\* strictly increasing index tuples: which places a list of n bodies takes
PlaceChoices(n) ==
    {c \in [1..n -> 1..Len(StartPlaces)] : \A a, b \in 1..n : a < b => c[a] < c[b]}

InitialObjects ==
    UNION {{[k \in 1..n |-> Body(StartPlaces[c[k]], v[k], m[k])] :
               c \in PlaceChoices(n), v \in [1..n -> Velocities], m \in [1..n -> Masses]} :
           n \in BodyCounts}

Positions(objs) == [i \in 1..Len(objs) |-> objs[i].pos]

TrailIdle == points = <<>> /\ arg = Zero2 /\ prev = <<>> /\ n_calls = 0

Init ==
    /\ objects \in InitialObjects
    /\ objects0 = objects
    /\ time = 0
    /\ info_time = 0
    /\ pc = "idle"
    /\ s = 0
    /\ j = 0
    /\ frames = 0
    /\ step_pos = Positions(objects)
    /\ batch_end = [i \in 1..Len(objects) |-> {}]
    /\ n_update_state = [i \in 1..Len(objects) |-> 0]
    /\ n_set_pos = [i \in 1..Len(objects) |-> 0]
    /\ TrailIdle

\* ------------------------------------------------ MainWidget.on_update
\* the clock calls on_update; s starts the range of the step loop
OnUpdate ==
    /\ pc = "idle"
    /\ frames < MaxUpdates
    /\ pc' = "loop"
    /\ s' = 0
    /\ UNCHANGED <<objects, time, info_time, j, frames, objects0, step_pos,
                   batch_end, n_update_state, n_set_pos>>

\* the start of a step with "self.time += dt" lost
StepTimeNoTick ==
    /\ pc = "loop"
    /\ s < STEPS_PER_RENDER
    /\ step_pos' = Positions(objects)
    /\ pc' = "forces"
    /\ UNCHANGED <<objects, time, info_time, s, j, frames, objects0, batch_end,
                   n_update_state, n_set_pos>>

\* one more step: self.time += dt
StepTime ==
    /\ pc = "loop"
    /\ s < STEPS_PER_RENDER
    /\ time' = time + DELTA_T
    /\ step_pos' = Positions(objects)
    /\ pc' = "forces"
    /\ UNCHANGED <<objects, info_time, s, j, frames, objects0, batch_end,
                   n_update_state, n_set_pos>>

\* calculate_forces(self.objects); with no object the inner loop has no turn
\* and the step is complete.  On a pair at distance 0 the forces are inf and
\* nan and so is all that follows: the run leaves the modelled states.
CalculateForces ==
    /\ pc = "forces"
    /\ IF degenerate(objects)
       THEN /\ pc' = "undefined"
            /\ UNCHANGED <<objects, s, j>>
       ELSE /\ objects' = calculate_forces(objects)
            /\ IF Len(objects) = 0
               THEN pc' = "loop" /\ s' = s + 1 /\ j' = j
               ELSE pc' = "integrate" /\ s' = s /\ j' = 1
    /\ UNCHANGED <<time, info_time, frames, objects0, step_pos, batch_end,
                   n_update_state, n_set_pos>>

\* a turn of the inner loop that also solves the forces again
UpdateStateResolving ==
    /\ pc = "integrate"
    /\ LET moved == [objects EXCEPT ![j] = update_state(@, DELTA_T)]
       IN objects' = IF degenerate(moved) THEN moved ELSE calculate_forces(moved)
    /\ n_update_state' = [n_update_state EXCEPT ![j] = @ + 1]
    /\ IF j = Len(objects)
       THEN pc' = "loop" /\ s' = s + 1 /\ j' = 0
       ELSE pc' = pc /\ s' = s /\ j' = j + 1
    /\ UNCHANGED <<time, info_time, frames, objects0, step_pos, batch_end, n_set_pos>>

\* a turn of the inner loop that also updates the body's graphics
UpdateStateDrawing ==
    /\ pc = "integrate"
    /\ objects' = [objects EXCEPT ![j] = update_graphics(update_state(@, DELTA_T))]
    /\ n_update_state' = [n_update_state EXCEPT ![j] = @ + 1]
    /\ n_set_pos' = [n_set_pos EXCEPT ![j] = @ + 1]
    /\ IF j = Len(objects)
       THEN pc' = "loop" /\ s' = s + 1 /\ j' = 0
       ELSE pc' = pc /\ s' = s /\ j' = j + 1
    /\ UNCHANGED <<time, info_time, frames, objects0, step_pos, batch_end>>

\* one turn of "for obj in self.objects: obj.update_state(dt)"; after the
\* last object the step is complete
UpdateState ==
    /\ pc = "integrate"
    /\ objects' = [objects EXCEPT ![j] = update_state(@, DELTA_T)]
    /\ n_update_state' = [n_update_state EXCEPT ![j] = @ + 1]
    /\ IF j = Len(objects)
       THEN pc' = "loop" /\ s' = s + 1 /\ j' = 0
       ELSE pc' = pc /\ s' = s /\ j' = j + 1
    /\ UNCHANGED <<time, info_time, frames, objects0, step_pos, batch_end, n_set_pos>>

\* the step loop is exhausted
EndSteps ==
    /\ pc = "loop"
    /\ s = STEPS_PER_RENDER
    /\ batch_end' = [i \in 1..Len(objects) |-> batch_end[i] \cup {objects[i].pos}]
    /\ IF Len(objects) = 0
       THEN pc' = "text" /\ j' = j
       ELSE pc' = "graphics" /\ j' = 1
    /\ UNCHANGED <<objects, time, info_time, s, frames, objects0, step_pos,
                   n_update_state, n_set_pos>>

\* one turn of "for obj in self.objects: obj.update_graphics()"
UpdateGraphics ==
    /\ pc = "graphics"
    /\ objects' = [objects EXCEPT ![j] = update_graphics(@)]
    /\ n_set_pos' = [n_set_pos EXCEPT ![j] = @ + 1]
    /\ IF j = Len(objects)
       THEN pc' = "text" /\ j' = 0
       ELSE pc' = pc /\ j' = j + 1
    /\ UNCHANGED <<time, info_time, s, frames, objects0, step_pos, batch_end,
                   n_update_state>>

\* self.info.text = ... self.time ...; on_update returns
UpdateText ==
    /\ pc = "text"
    /\ info_time' = time
    /\ frames' = frames + 1
    /\ pc' = "idle"
    /\ s' = 0
    /\ UNCHANGED <<objects, time, j, objects0, step_pos, batch_end,
                   n_update_state, n_set_pos>>

Next ==
    \/ OnUpdate /\ UNCHANGED trail_vars
    \/ StepTime /\ UNCHANGED trail_vars
    \/ CalculateForces /\ UNCHANGED trail_vars
    \/ UpdateState /\ UNCHANGED trail_vars
    \/ EndSteps /\ UNCHANGED trail_vars
    \/ UpdateGraphics /\ UNCHANGED trail_vars
    \/ UpdateText /\ UNCHANGED trail_vars

Spec == Init /\ [][Next]_vars

\* ------------------------------------------------- a Trail driven directly
\* The positions set_pos is called with: <<3,4>> and <<6,0>> are at exactly
\* MinSpacing from others, <<1,0>> is closer than MinSpacing to two of them.
TrailPositions == {<<0, 0>>, <<3, 4>>, <<6, 0>>, <<1, 0>>}

\* three positions, each at MinSpacing or more from the other two
FarTour == << <<0, 0>>, <<3, 4>>, <<6, 0>> >>

\* the positions call number n_calls + 1 may take
Allowed(p) ==
    \/ n_calls < FreeHead
    \/ n_calls >= MaxCalls - FreeTail
    \/ p = FarTour[(n_calls % Len(FarTour)) + 1]

SimIdle ==
    /\ objects = <<>> /\ objects0 = <<>> /\ time = 0 /\ info_time = 0
    /\ pc = "idle" /\ s = 0 /\ j = 0 /\ frames = 0 /\ step_pos = <<>>
    /\ batch_end = <<>> /\ n_update_state = <<>> /\ n_set_pos = <<>>

\* Trail.__init__: self.points = []
InitTrail == TrailIdle /\ SimIdle

\* a call of Trail.set_pos(p)
SetPos(p) ==
    /\ n_calls < MaxCalls
    /\ Allowed(p)
    /\ prev' = points
    /\ arg' = p
    /\ points' = set_pos(points, p)
    /\ n_calls' = n_calls + 1

NextTrail == \E p \in TrailPositions : SetPos(p) /\ UNCHANGED sim_vars

SpecTrail == InitTrail /\ [][NextTrail]_vars

\* ============================================================== claims
\* the point i places from the end of pts (1: the last)
FromEnd(pts, i) == pts[Len(pts) + 1 - i]

\* C1 (trail cap): between set_pos calls the trail never holds more than
\* 100 points, whatever was recorded.
C1_TrailCap == Len(points) <= TRAIL_MAX_POINTS

\* C1 witness: more than 100 calls were made, the trail was full, and the
\* last call appended a far position, so the oldest point went.
C1_Witness ==
    /\ n_calls > TRAIL_MAX_POINTS
    /\ Len(prev) = TRAIL_MAX_POINTS
    /\ norm(VSub(FromEnd(prev, 2), arg)) >= MinSpacing
    /\ points = Tail(Append(prev, arg))
    /\ Len(points) = TRAIL_MAX_POINTS

\* C2 as claimed (trail spacing): every two consecutive stored points, other
\* than the last two, are at least MinSpacing apart.
C2_SpacingAsClaimed ==
    \A i \in 1..(Len(points) - 2) :
        norm(VSub(points[i], points[i + 1])) >= MinSpacing

\* C2 amended: every stored point from the third on is at least MinSpacing
\* from the point two places before it, or closer than MinSpacing to the
\* point right before it.
C2_Spacing ==
    \A i \in 3..Len(points) :
        \/ norm(VSub(points[i - 2], points[i])) >= MinSpacing
        \/ norm(VSub(points[i - 1], points[i])) < MinSpacing

\* C2 witness: a trail with a point of each kind, the near one not the last.
C2_Witness ==
    /\ Len(points) >= 5
    /\ \E i \in 3..(Len(points) - 1) :
          /\ norm(VSub(points[i - 1], points[i])) < MinSpacing
          /\ norm(VSub(points[i - 2], points[i])) < MinSpacing
    /\ \E i \in 3..Len(points) :
          /\ norm(VSub(points[i - 2], points[i])) >= MinSpacing
          /\ norm(VSub(points[i - 1], points[i])) >= MinSpacing

\* C3 (trail collapse): a set_pos(p) on a trail of 2 or more points with p
\* closer than MinSpacing to the second-to-last point leaves the count as it
\* was, makes p the last point and changes no other point.
C3_Collapse ==
    (n_calls > 0 /\ Len(prev) >= 2 /\ norm(VSub(FromEnd(prev, 2), arg)) < MinSpacing)
        => points = [prev EXCEPT ![Len(prev)] = arg]

\* C3 witness: such a call on a full trail, which moved the last point.
C3_Witness ==
    /\ n_calls > 0
    /\ Len(prev) = TRAIL_MAX_POINTS
    /\ norm(VSub(FromEnd(prev, 2), arg)) < MinSpacing
    /\ FromEnd(prev, 1) # arg
    /\ FromEnd(points, 1) = arg

\* ------------------------------------------------------- the simulation
RECURSIVE MomentumUpTo(_, _)
MomentumUpTo(objs, n) ==
    IF n = 0 THEN Zero2
    ELSE VAdd(MomentumUpTo(objs, n - 1), VScale(objs[n].vel, objs[n].mass))

\* the sum over the bodies of mass * velocity
Momentum(objs) == MomentumUpTo(objs, Len(objs))

RECURSIVE ForceSumUpTo(_, _)
ForceSumUpTo(objs, n) ==
    IF n = 0 THEN Zero2 ELSE VAdd(ForceSumUpTo(objs, n - 1), objs[n].force)

RECURSIVE MassSlackUpTo(_, _)
MassSlackUpTo(objs, n) ==
    IF n = 0 THEN 0 ELSE MassSlackUpTo(objs, n - 1) + (objs[n].mass - 1)

\* steps that are complete: every body has been integrated in them
StepsDone == frames * STEPS_PER_RENDER + s

\* the bodies as they stood when the running step began
AtStepStart == [i \in 1..Len(objects) |-> [objects[i] EXCEPT !.pos = step_pos[i]]]

\* C4 (force symmetry): with two bodies, the force of one is the exact
\* negation of the force of the other.
C4_ForceSymmetry ==
    Len(objects) = 2 => objects[1].force = VNeg(objects[2].force)

\* C4 witness: two bodies of different mass just solved, with a force that
\* has both components.
C4_Witness ==
    /\ Len(objects) = 2
    /\ pc = "integrate" /\ j = 1
    /\ objects[1].mass # objects[2].mass
    /\ objects[1].force[1] # 0 /\ objects[1].force[2] # 0

EulerStepOf(b, b2) ==
    /\ b2.pos = VAdd(b.pos, VScale(b.vel, DELTA_T))
    /\ b2.vel = VAdd(b.vel, VScale(VQuot(b.force, b.mass), DELTA_T))

\* two bodies, both constructed at rest, after exactly one step
AtRestAfterOneStep ==
    /\ Len(objects) = 2
    /\ objects0[1].vel = Zero2 /\ objects0[2].vel = Zero2
    /\ pc = "loop" /\ StepsDone = 1

\* C6 (explicit Euler step): update_state(dt) sets pos to pos + vel * dt and
\* vel to vel + (force / mass) * dt, both from the values before the step; and
\* two bodies at rest keep their positions over the first step while each
\* velocity becomes (force / mass) * dt, pointing to the other body.
C6_EulerStep ==
    /\ [][pc = "integrate" => EulerStepOf(objects[j], objects'[j])]_vars
    /\ [](AtRestAfterOneStep =>
            \A i \in 1..2 :
                LET b == objects[i]
                    other == objects[3 - i]
                    toward == VSub(other.pos, b.pos)
                IN /\ b.pos = objects0[i].pos
                   /\ b.vel = VScale(VQuot(b.force, b.mass), DELTA_T)
                   /\ b.vel[1] * toward[1] >= 0
                   /\ b.vel[2] * toward[2] >= 0)

\* C6 witness: that state, with a body that has picked up speed.
C6_Witness ==
    /\ AtRestAfterOneStep
    /\ \E i \in 1..2 : objects[i].vel[1] # 0 /\ objects[i].vel[2] # 0

\* C7 (0 or 1 bodies): no pair is visited, nothing fails, the body's force
\* stays zero and its velocity stays what it was constructed with.
C7_FewBodies ==
    Len(objects) <= 1 =>
        /\ pairs(Len(objects)) = <<>>
        /\ pc # "undefined"
        /\ \A i \in 1..Len(objects) :
              /\ objects[i].force = Zero2
              /\ objects[i].vel = objects0[i].vel

\* C7 witness: a single moving body after whole batches.
C7_Witness ==
    /\ Len(objects) = 1
    /\ pc = "idle" /\ frames >= 2
    /\ objects[1].vel # Zero2
    /\ objects[1].pos # objects0[1].pos

\* C8, the states: time is dt times the steps begun; between on_update calls
\* it is frames * STEPS_PER_RENDER * DELTA_T and dt times the update_state
\* calls of every body.
TimeAccounts ==
    /\ time = DELTA_T * (StepsDone
                          + (IF pc \in {"forces", "integrate", "undefined"} THEN 1 ELSE 0))
    /\ pc = "idle" =>
          /\ time = frames * STEPS_PER_RENDER * DELTA_T
          /\ \A i \in 1..Len(objects) : time = DELTA_T * n_update_state[i]

\* C8 (simulated time): time starts at 0, grows by exactly dt once per step
\* and by nothing else, never shrinks; after k updates it is
\* k * STEPS_PER_RENDER * DELTA_T, and dt times each body's update_state calls.
C8_Time ==
    /\ []TimeAccounts
    /\ [][\/ time' = time
          \/ time' = time + DELTA_T /\ pc = "loop" /\ pc' = "forces"]_vars

\* C8 witness: two or more bodies after two whole updates.
C8_Witness ==
    /\ pc = "idle" /\ frames >= 2
    /\ Len(objects) >= 2
    /\ time = frames * STEPS_PER_RENDER * DELTA_T

\* C9 (solve before integrate): while the bodies are integrated, every
\* body's force is the one computed from all positions as the step began, and
\* in every step each body is integrated exactly once.
C9_SolveBeforeIntegrate ==
    /\ pc = "integrate" =>
          LET solved == calculate_forces(AtStepStart)
          IN \A i \in 1..Len(objects) : objects[i].force = solved[i].force
    /\ \A i \in 1..Len(objects) :
          n_update_state[i] = StepsDone + (IF pc = "integrate" /\ i < j THEN 1 ELSE 0)

\* C9 witness: three bodies, the first already moved in this step, where
\* solving again now would give the second another force.
C9_Witness ==
    /\ Len(objects) = 3
    /\ pc = "integrate" /\ j = 2
    /\ objects[1].pos # step_pos[1]
    /\ ~degenerate(objects)
    /\ calculate_forces(objects)[2].force # objects[2].force

\* C10 (trails see whole batches only): every body's set_pos is called once
\* per update, after the batch's last step, with the position the batch ended
\* at; no other position is ever in a trail.
C10_TrailAfterBatch ==
    \A i \in 1..Len(objects) :
        /\ n_set_pos[i] = frames + (IF pc = "text" \/ (pc = "graphics" /\ i < j)
                                    THEN 1 ELSE 0)
        /\ \A k \in 1..Len(objects[i].trail) : objects[i].trail[k] \in batch_end[i]
        /\ (pc \in {"idle", "text"} /\ n_set_pos[i] > 0) =>
              FromEnd(objects[i].trail, 1) = objects[i].pos

\* C10 witness: after two updates a body holds the two batch-end positions,
\* different from where it started.
C10_Witness ==
    /\ pc = "idle" /\ frames >= 2
    /\ \E i \in 1..Len(objects) :
          /\ Len(objects[i].trail) = 2
          /\ objects[i].trail[1] # objects[i].trail[2]
          /\ objects[i].trail[1] # objects0[i].pos
          /\ objects[i].force # Zero2

====
